---------------------------- MODULE Spec2Model ----------------------------
(***************************************************************************)
(* A model of ubuntu_image_fetcher.py: the UbuntuImageFetcher class (the   *)
(* content-hash index over the Fetched_Images directory and the download   *)
(* pipeline) and the callers that drive it.                                *)
(*                                                                         *)
(* Python str values are sequences of one-character strings, bytes values  *)
(* are sequences of small naturals, the directory is a function from file  *)
(* names to entries.                                                       *)
(***************************************************************************)
EXTENDS Integers, Sequences, FiniteSets, TLC

(***************************************************************************)
(* Bounds of the model.                                                    *)
(***************************************************************************)
\* download_single_image calls in one run
MaxCalls == 2
\* length of the list handed to download_multiple_images
MaxBatch == 2
\* number of values of the modelled digest
DigestSpace == 3

(***************************************************************************)
(* Python str operations.                                                  *)
(***************************************************************************)
UpperChars ==
    <<"A", "B", "C", "D", "E", "F", "G", "H", "I", "J", "K", "L", "M",
      "N", "O", "P", "Q", "R", "S", "T", "U", "V", "W", "X", "Y", "Z">>

LowerChars ==
    <<"a", "b", "c", "d", "e", "f", "g", "h", "i", "j", "k", "l", "m",
      "n", "o", "p", "q", "r", "s", "t", "u", "v", "w", "x", "y", "z">>

Digits == <<"0", "1", "2", "3", "4", "5", "6", "7", "8", "9">>

Whitespace == {" "}

\* str.lower() on one character
LowerChar(c) ==
    IF \E k \in 1..Len(UpperChars) : UpperChars[k] = c
    THEN LowerChars[CHOOSE k \in 1..Len(UpperChars) : UpperChars[k] = c]
    ELSE c

\* str.lower()
Lower(s) == [k \in 1..Len(s) |-> LowerChar(s[k])]

\* the Python expression  sub in s
Contains(s, sub) ==
    \E k \in 0..(Len(s) - Len(sub)) : SubSeq(s, k + 1, k + Len(sub)) = sub

\* s[from:]
From(s, from) == SubSeq(s, from, Len(s))

\* s.find(c) + 1: the first position of character c in s, 0 when absent
FindChar(s, c) ==
    IF \E k \in 1..Len(s) : s[k] = c
    THEN CHOOSE k \in 1..Len(s) : s[k] = c /\ \A j \in 1..(k - 1) : s[j] # c
    ELSE 0

\* s.rfind(c) + 1: the last position of character c in s, 0 when absent
RFindChar(s, c) ==
    IF \E k \in 1..Len(s) : s[k] = c
    THEN CHOOSE k \in 1..Len(s) : s[k] = c /\ \A j \in (k + 1)..Len(s) : s[j] # c
    ELSE 0

\* the first position of any character of set cs in s, Len(s) + 1 when none
FindAny(s, cs) ==
    IF \E k \in 1..Len(s) : s[k] \in cs
    THEN CHOOSE k \in 1..Len(s) : s[k] \in cs /\ \A j \in 1..(k - 1) : s[j] \notin cs
    ELSE Len(s) + 1

\* str.strip()
Strip(s) ==
    IF \A k \in 1..Len(s) : s[k] \in Whitespace
    THEN << >>
    ELSE LET first == CHOOSE k \in 1..Len(s) :
                          s[k] \notin Whitespace /\ \A j \in 1..(k - 1) : s[j] \in Whitespace
             last  == CHOOSE k \in 1..Len(s) :
                          s[k] \notin Whitespace /\ \A j \in (k + 1)..Len(s) : s[j] \in Whitespace
         IN  SubSeq(s, first, last)

IsDigit(c) == \E k \in 1..Len(Digits) : Digits[k] = c

DigitValue(c) == (CHOOSE k \in 1..Len(Digits) : Digits[k] = c) - 1

\* str(n) for n >= 0, as the f-string f"{counter}" formats it
RECURSIVE IntToStr(_)
IntToStr(n) ==
    IF n < 10 THEN <<Digits[n + 1]>>
    ELSE IntToStr(n \div 10) \o <<Digits[(n % 10) + 1]>>

\* the digits of an int() literal after its sign: digits, single underscores between them
IsDigitString(s) ==
    /\ Len(s) > 0
    /\ IsDigit(s[1])
    /\ IsDigit(s[Len(s)])
    /\ \A k \in 1..Len(s) : IsDigit(s[k]) \/ s[k] = "_"
    /\ \A k \in 1..(Len(s) - 1) : ~(s[k] = "_" /\ s[k + 1] = "_")

\* the unsigned part of an int() literal
Unsigned(s) ==
    LET t == Strip(s)
    IN  IF Len(t) > 0 /\ t[1] \in {"+", "-"} THEN From(t, 2) ELSE t

\* int(s) raises ValueError exactly when this is false
IsIntLiteral(s) == IsDigitString(Unsigned(s))

RECURSIVE DigitsValue(_, _)
DigitsValue(s, acc) ==
    IF s = << >> THEN acc
    ELSE IF s[1] = "_" THEN DigitsValue(Tail(s), acc)
    ELSE DigitsValue(Tail(s), 10 * acc + DigitValue(s[1]))

\* int(s), for an s that IsIntLiteral
ParseInt(s) ==
    LET t == Strip(s)
        v == DigitsValue(Unsigned(s), 0)
    IN  IF t[1] = "-" THEN 0 - v ELSE v

(***************************************************************************)
(* urllib.parse.urlparse(url).path, os.path.basename, os.path.splitext.    *)
(***************************************************************************)
SetOf(s) == {s[k] : k \in 1..Len(s)}

SchemeChars == SetOf(UpperChars) \cup SetOf(LowerChars) \cup SetOf(Digits) \cup {"+", "-", "."}

\* urlsplit: the url after its scheme ("http:") is taken off
AfterScheme(url) ==
    LET c == FindChar(url, ":")
    IN  IF /\ c > 1
           /\ url[1] \in SetOf(UpperChars) \cup SetOf(LowerChars)
           /\ \A k \in 1..(c - 1) : url[k] \in SchemeChars
        THEN From(url, c + 1)
        ELSE url

\* urlsplit: the url after its network location ("//host") is taken off
AfterNetloc(rest) ==
    IF Len(rest) >= 2 /\ rest[1] = "/" /\ rest[2] = "/"
    THEN LET tail == From(rest, 3)
         IN  From(tail, FindAny(tail, {"/", "?", "#"}))
    ELSE rest

\* s.split(c, 1)[0]
Before(s, c) ==
    IF FindChar(s, c) = 0 THEN s ELSE SubSeq(s, 1, FindChar(s, c) - 1)

\* urlparse: _splitparams(url)[0], the path without the ";params" of its last segment
WithoutParams(p) ==
    LET slash == RFindChar(p, "/")
        tail  == From(p, slash + 1)
        semi  == FindChar(tail, ";")
    IN  IF semi = 0 THEN p ELSE SubSeq(p, 1, slash + semi - 1)

\* urlsplit: url.lstrip() of leading blanks
LStrip(s) ==
    IF \A k \in 1..Len(s) : s[k] \in Whitespace
    THEN << >>
    ELSE From(s, CHOOSE k \in 1..Len(s) :
                     s[k] \notin Whitespace /\ \A j \in 1..(k - 1) : s[j] \in Whitespace)

\* urlparse(url).path
UrlPath(url) ==
    WithoutParams(Before(Before(AfterNetloc(AfterScheme(LStrip(url))), "#"), "?"))

\* os.path.basename(p)
Basename(p) == From(p, RFindChar(p, "/") + 1)

\* os.path.splitext(p): <<root, ext>>. The extension starts at the last dot of the
\* last segment, unless only dots come before it in that segment.
SplitExt(p) ==
    LET sep == RFindChar(p, "/")
        dot == RFindChar(p, ".")
    IN  IF dot > sep /\ \E k \in (sep + 1)..(dot - 1) : p[k] # "."
        THEN <<SubSeq(p, 1, dot - 1), From(p, dot)>>
        ELSE <<p, << >> >>

(***************************************************************************)
(* Bytes and hashlib.md5.  A body is a sequence of bytes.  The digest is a *)
(* function of the bytes alone with fewer values than there are bodies, as *)
(* MD5 has: equal bodies have equal digests, and some distinct bodies have *)
(* equal digests too.                                                      *)
(***************************************************************************)
\* the bodies the servers of the model send
Bodies == { <<0>>, <<1>>, <<0, 1>> }

RECURSIVE DigestFrom(_, _)
DigestFrom(content, h) ==
    IF content = << >> THEN h
    ELSE DigestFrom(Tail(content), (3 * h + content[1] + 1) % DigestSpace)

\* hashlib.md5(content).hexdigest()
md5(content) == DigestFrom(content, 0)

\* get_file_hash
get_file_hash(content) == md5(content)

\* is_duplicate that never finds the hash
is_duplicate_never(content, downloaded_hashes) == FALSE

\* is_duplicate
is_duplicate(content, downloaded_hashes) ==
    get_file_hash(content) \in downloaded_hashes

(***************************************************************************)
(* The response of requests.get: its headers (a function from the names of *)
(* the headers the server sent to their values) and its url.               *)
(***************************************************************************)
\* response.headers.get(name, default)
HeaderGet(headers, name, default) ==
    IF name \in DOMAIN headers THEN headers[name] ELSE default

\* the truth value of response.headers.get(name): None and '' are both false
HeaderTruthy(headers, name) ==
    name \in DOMAIN headers /\ headers[name] # << >>

safe_types ==
    { <<"i", "m", "a", "g", "e", "/", "j", "p", "e", "g">>,
      <<"i", "m", "a", "g", "e", "/", "j", "p", "g">>,
      <<"i", "m", "a", "g", "e", "/", "p", "n", "g">>,
      <<"i", "m", "a", "g", "e", "/", "g", "i", "f">>,
      <<"i", "m", "a", "g", "e", "/", "w", "e", "b", "p">>,
      <<"i", "m", "a", "g", "e", "/", "b", "m", "p">> }

safe_extensions ==
    { <<".", "j", "p", "g">>, <<".", "j", "p", "e", "g">>, <<".", "p", "n", "g">>,
      <<".", "g", "i", "f">>, <<".", "w", "e", "b", "p">>, <<".", "b", "m", "p">> }

\* is_safe_file_type with the extension compared as the URL spells it
is_safe_file_type_case_sensitive(response) ==
    LET content_type == Lower(HeaderGet(response.headers, "content-type", << >>))
        file_extension == SplitExt(UrlPath(response.url))[2]
    IN  IF content_type # << >> /\ ~(\E st \in safe_types : Contains(content_type, st))
        THEN FALSE
        ELSE IF file_extension # << >> /\ file_extension \notin safe_extensions
        THEN FALSE
        ELSE TRUE

\* is_safe_file_type
is_safe_file_type(response) ==
    LET content_type == Lower(HeaderGet(response.headers, "content-type", << >>))
        file_extension == Lower(SplitExt(UrlPath(response.url))[2])
    IN  IF content_type # << >> /\ ~(\E st \in safe_types : Contains(content_type, st))
        THEN FALSE
        ELSE IF file_extension # << >> /\ file_extension \notin safe_extensions
        THEN FALSE
        ELSE TRUE

\* get_filename_from_url with png tested before jpeg and jpg
get_filename_from_url_png_first(url, response) ==
    LET filename == Basename(UrlPath(url))
        content_type ==
            HeaderGet(response.headers, "content-type",
                      <<"i", "m", "a", "g", "e", "/", "j", "p", "e", "g">>)
        extension ==
            IF Contains(content_type, <<"p", "n", "g">>) THEN <<".", "p", "n", "g">>
            ELSE IF \/ Contains(content_type, <<"j", "p", "e", "g">>)
                    \/ Contains(content_type, <<"j", "p", "g">>)
            THEN <<".", "j", "p", "g">>
            ELSE IF Contains(content_type, <<"g", "i", "f">>) THEN <<".", "g", "i", "f">>
            ELSE IF Contains(content_type, <<"w", "e", "b", "p">>)
            THEN <<".", "w", "e", "b", "p">>
            ELSE <<".", "p", "n", "g">>
    IN  IF filename = << >> \/ ~Contains(filename, <<".">>)
        THEN <<"d", "o", "w", "n", "l", "o", "a", "d", "e", "d", "_",
               "i", "m", "a", "g", "e">> \o extension
        ELSE filename

\* get_filename_from_url
get_filename_from_url(url, response) ==
    LET filename == Basename(UrlPath(url))
        content_type ==
            HeaderGet(response.headers, "content-type",
                      <<"i", "m", "a", "g", "e", "/", "j", "p", "e", "g">>)
        extension ==
            IF \/ Contains(content_type, <<"j", "p", "e", "g">>)
               \/ Contains(content_type, <<"j", "p", "g">>)
            THEN <<".", "j", "p", "g">>
            ELSE IF Contains(content_type, <<"p", "n", "g">>) THEN <<".", "p", "n", "g">>
            ELSE IF Contains(content_type, <<"g", "i", "f">>) THEN <<".", "g", "i", "f">>
            ELSE IF Contains(content_type, <<"w", "e", "b", "p">>)
            THEN <<".", "w", "e", "b", "p">>
            ELSE <<".", "j", "p", "g">>
    IN  IF filename = << >> \/ ~Contains(filename, <<".">>)
        THEN <<"d", "o", "w", "n", "l", "o", "a", "d", "e", "d", "_",
               "i", "m", "a", "g", "e">> \o extension
        ELSE filename

(***************************************************************************)
(* The download directory.  fs.exists: the directory itself exists;        *)
(* fs.files: its entries by name, each a regular file or a subdirectory,   *)
(* with its bytes and whether open(..., 'rb') and read() succeed on it.    *)
(***************************************************************************)
\* entries every existing directory has
DotNames == { <<".">>, <<".", ".">> }

\* os.path.exists that finds nothing
PathExists_blind(fs, filename) == FALSE

\* os.path.exists(os.path.join(self.download_dir, filename))
PathExists(fs, filename) ==
    fs.exists /\ (filename \in DOMAIN fs.files \/ filename \in DotNames)

RegularFile(content) == [kind |-> "file", readable |-> TRUE, content |-> content]

\* the files load_existing_hashes hashes: regular, and read without an error
Hashable(fs) ==
    IF fs.exists
    THEN {n \in DOMAIN fs.files : fs.files[n].kind = "file" /\ fs.files[n].readable}
    ELSE {}

\* load_existing_hashes that adds nothing to the index
load_existing_hashes_skipped(fs, downloaded_hashes) == downloaded_hashes

\* load_existing_hashes
load_existing_hashes(fs, downloaded_hashes) ==
    downloaded_hashes \cup {md5(fs.files[n].content) : n \in Hashable(fs)}

\* f"{base_name}_{counter}{extension}"
Suffixed(base_name, counter, extension) ==
    base_name \o <<"_">> \o IntToStr(counter) \o extension

\* the while loop of download_single_image, entered with filename already taken
RECURSIVE Probe(_, _, _, _)
Probe(fs, base_name, extension, counter) ==
    IF PathExists(fs, Suffixed(base_name, counter, extension))
    THEN Probe(fs, base_name, extension, counter + 1)
    ELSE Suffixed(base_name, counter, extension)

\* the name kept when the loop is left out: the derived name, taken or not
UniqueName_unprobed(fs, filename) == filename

\* the name kept when the loop numbers from 2
UniqueName_from_two(fs, filename) ==
    IF PathExists(fs, filename)
    THEN Probe(fs, SplitExt(filename)[1], SplitExt(filename)[2], 2)
    ELSE filename

\* "Ensure unique filename": the name download_single_image writes to
UniqueName(fs, filename) ==
    IF PathExists(fs, filename)
    THEN Probe(fs, SplitExt(filename)[1], SplitExt(filename)[2], 1)
    ELSE filename

\* with open(filepath, 'wb') as f: f.write(content), when nothing fails
WriteFile(fs, filename, content) ==
    [fs EXCEPT !.files = (filename :> RegularFile(content)) @@ fs.files]

\* self.downloaded_hashes.add(...) left out
AddHash_dropped(downloaded_hashes, content) == downloaded_hashes

\* the index assigned the new hash alone instead of having it added
AddHash_replacing(downloaded_hashes, content) == {get_file_hash(content)}

\* self.downloaded_hashes.add(self.get_file_hash(content))
AddHash(downloaded_hashes, content) ==
    downloaded_hashes \cup {get_file_hash(content)}

(***************************************************************************)
(* download_single_image.  env is what the world does during one call: the *)
(* outcome of requests.get (net, status, headers, the url after redirects),*)
(* of reading response.content (bodyRead, body) and of writing the file    *)
(* (write; written: the bytes that reached the file when the write fails). *)
(* The call yields the directory and the index it leaves and a result:     *)
(* tag names the return statement or handler the call ended in, ret the    *)
(* value returned, exc the exception raised inside the try block, escaped  *)
(* whether that exception left the function, stage the last stage run,     *)
(* filename the name written to.                                           *)
(***************************************************************************)
\* the 10MB limit
MAX_BYTES == 10 * 1024 * 1024

\* subclasses of requests.exceptions.RequestException
RequestExceptions == {"ConnectionError", "HTTPError", "ChunkedEncodingError"}

\* subclasses of Exception the try block can raise
Exceptions == RequestExceptions \cup {"ValueError", "OSError"}

\* except requests.exceptions.RequestException
CaughtAsRequestException(kind) == kind \in RequestExceptions

\* the second handler left out
CaughtAsException_absent(kind) == FALSE

\* except Exception
CaughtAsException(kind) == kind \in Exceptions

Returned(tag, ret, stage, filename) ==
    [tag |-> tag, ret |-> ret, exc |-> "none", escaped |-> FALSE,
     stage |-> stage, filename |-> filename]

\* an exception of class kind raised at stage inside the try block
Raised(kind, stage) ==
    IF CaughtAsRequestException(kind)
    THEN [tag |-> "NetworkError", ret |-> FALSE, exc |-> kind, escaped |-> FALSE,
          stage |-> stage, filename |-> << >>]
    ELSE IF CaughtAsException(kind)
    THEN [tag |-> "Error", ret |-> FALSE, exc |-> kind, escaped |-> FALSE,
          stage |-> stage, filename |-> << >>]
    ELSE [tag |-> "Escaped", ret |-> FALSE, exc |-> kind, escaped |-> TRUE,
          stage |-> stage, filename |-> << >>]

\* the response object: response.headers and response.url
Response(url, env) ==
    [headers |-> env.headers,
     url     |-> IF env.redirect = << >> THEN url ELSE env.redirect]

\* response.raise_for_status() raises HTTPError
IsErrorStatus(status) == 400 <= status /\ status < 600

\* the comparison with the limit, made inclusive
ExceedsLimit_inclusive(content_length) == ParseInt(content_length) >= MAX_BYTES

\* int(content_length) > 10 * 1024 * 1024
ExceedsLimit(content_length) == ParseInt(content_length) > MAX_BYTES

\* requests.get, raise_for_status, the content-length check and the file type check:
\* the result the call ends with, or tag "pass"
HeaderStages(url, env) ==
    LET content_length == HeaderGet(env.headers, "content-length", << >>)
    IN  IF env.net = "error" THEN Raised("ConnectionError", "request")
        ELSE IF IsErrorStatus(env.status) THEN Raised("HTTPError", "request")
        ELSE IF HeaderTruthy(env.headers, "content-length") /\ ~IsIntLiteral(content_length)
        THEN Raised("ValueError", "size")
        ELSE IF HeaderTruthy(env.headers, "content-length") /\ ExceedsLimit(content_length)
        THEN Returned("TooLarge", FALSE, "size", << >>)
        ELSE IF ~is_safe_file_type(Response(url, env))
        THEN Returned("UnsafeType", FALSE, "type", << >>)
        ELSE Returned("pass", TRUE, "type", << >>)

\* reading response.content, the duplicate check, naming, the unique name, the write
\* and the index update
BodyStages(url, env, fs, downloaded_hashes) ==
    LET content  == env.body
        filename == UniqueName(fs, get_filename_from_url(url, Response(url, env)))
        keep(result) == [fs |-> fs, hashes |-> downloaded_hashes, result |-> result]
    IN  IF env.bodyRead = "error" THEN keep(Raised("ChunkedEncodingError", "body"))
        ELSE IF is_duplicate(content, downloaded_hashes)
        THEN keep(Returned("duplicate", TRUE, "dedup", << >>))
        ELSE IF ~fs.exists \/ env.write = "open_fails"
        THEN keep(Raised("OSError", "placement"))
        ELSE IF env.write = "write_fails"
        THEN [fs     |-> WriteFile(fs, filename, SubSeq(content, 1, env.written)),
              hashes |-> downloaded_hashes,
              result |-> Raised("OSError", "placement")]
        ELSE [fs     |-> WriteFile(fs, filename, content),
              hashes |-> AddHash(downloaded_hashes, content),
              result |-> Returned("accepted", TRUE, "placement", filename)]

\* download_single_image with the file written before the checks are consulted
download_single_image_writes_first(url, env, fs, downloaded_hashes) ==
    LET verdict == HeaderStages(url, env)
        stored  == BodyStages(url, env, fs, downloaded_hashes)
    IN  IF verdict.tag = "pass" THEN stored ELSE [stored EXCEPT !.result = verdict]

\* download_single_image
download_single_image(url, env, fs, downloaded_hashes) ==
    LET verdict == HeaderStages(url, env)
    IN  IF verdict.tag = "pass"
        THEN BodyStages(url, env, fs, downloaded_hashes)
        ELSE [fs |-> fs, hashes |-> downloaded_hashes, result |-> verdict]

(***************************************************************************)
(* The inputs of the model: URLs, header values, directories found at      *)
(* startup, and what the world does during a call.                         *)
(***************************************************************************)
Url_a_png   == <<"h", "t", "t", "p", ":", "/", "/", "x", "/", "a", ".", "p", "n", "g">>
Url_img     == <<"h", "t", "t", "p", ":", "/", "/", "x", "/", "i", "m", "g">>
Url_a_exe   == <<"h", "t", "t", "p", ":", "/", "/", "x", "/", "a", ".", "e", "x", "e">>
Url_dotdot  == <<"h", "t", "t", "p", ":", "/", "/", "x", "/", ".", ".">>
Url_b_PNG   == <<"h", "t", "t", "p", ":", "/", "/", "x", "/", "b", ".", "P", "N", "G">>
Url_a_dot   == <<"h", "t", "t", "p", ":", "/", "/", "x", "/", "a", ".">>
Url_hidden  == <<"h", "t", "t", "p", ":", "/", "/", "x", "/", ".", "p", "n", "g">>
Url_d_e_f   == <<"h", "t", "t", "p", ":", "/", "/", "x", "/", "d", ".", "e", "/", "f">>
Url_query   ==
    <<"h", "t", "t", "p", ":", "/", "/", "x", "/", "a", ".", "p", "n", "g",
      "?", "v", "=", "1", ".", "e", "x", "e">>
Url_r_png   == <<"h", "t", "t", "p", ":", "/", "/", "y", "/", "r", ".", "p", "n", "g">>
Url_r_exe   == <<"h", "t", "t", "p", ":", "/", "/", "y", "/", "r", ".", "e", "x", "e">>
Url_params  ==
    <<"h", "t", "t", "p", ":", "/", "/", "x", "/", "a", ".", "p", "n", "g", ";", "v", "=", "1">>
Url_param_ext ==
    <<"h", "t", "t", "p", ":", "/", "/", "x", "/", "a", ";", "b", ".", "p", "n", "g">>
Url_dir     == <<"h", "t", "t", "p", ":", "/", "/", "x", "/", "d", "/">>
Url_host    == <<"h", "t", "t", "p", ":", "/", "/", "x">>
Line_padded ==
    <<" ", "h", "t", "t", "p", ":", "/", "/", "x", "/", "a", ".", "p", "n", "g", " ">>
Line_blank  == <<" ", " ">>

Name_a_png  == <<"a", ".", "p", "n", "g">>
Name_a_1_png == <<"a", "_", "1", ".", "p", "n", "g">>

Len_at_limit   == <<"1", "0", "4", "8", "5", "7", "6", "0">>
Len_over_limit == <<"1", "0", "4", "8", "5", "7", "6", "1">>
Len_padded     == <<" ", "1", "0", "4", "8", "5", "7", "6", "1", " ">>
Len_small      == <<"2", "0", "0", "0">>
Len_malformed  == <<"a", "b", "c">>

Type_png   == <<"i", "m", "a", "g", "e", "/", "p", "n", "g">>
Type_PNG   == <<"I", "M", "A", "G", "E", "/", "P", "N", "G">>
Type_html  == <<"t", "e", "x", "t", "/", "h", "t", "m", "l">>
Type_svg   == <<"i", "m", "a", "g", "e", "/", "s", "v", "g", "+", "x", "m", "l">>
Type_gif   == <<"i", "m", "a", "g", "e", "/", "g", "i", "f">>
Type_webp  == <<"i", "m", "a", "g", "e", "/", "w", "e", "b", "p">>
Type_bmp   == <<"i", "m", "a", "g", "e", "/", "b", "m", "p">>
Type_jpg   == <<"i", "m", "a", "g", "e", "/", "j", "p", "g">>
Type_gif_png ==
    <<"i", "m", "a", "g", "e", "/", "g", "i", "f", ";", "x", "=", "p", "n", "g">>
Type_jpeg_params ==
    <<"i", "m", "a", "g", "e", "/", "j", "p", "e", "g", ";", " ",
      "c", "h", "a", "r", "s", "e", "t", "=", "b", "i", "n", "a", "r", "y">>

\* a header the server did not send, and one it sent with value v
Absent == [present |-> FALSE, value |-> << >>]
Sent(v) == [present |-> TRUE, value |-> v]

\* response.headers of a response with these content-length and content-type headers
Headers(content_length, content_type) ==
    [name \in {n \in {"content-length"} : content_length.present}
              \cup {n \in {"content-type"} : content_type.present}
        |-> IF name = "content-length" THEN content_length.value ELSE content_type.value]

\* a 200 response to the request, image/png, no content-length, empty body, stored
PlainEnv ==
    [net |-> "ok", status |-> 200, headers |-> Headers(Absent, Sent(Type_png)),
     redirect |-> << >>, body |-> << >>, bodyRead |-> "ok", write |-> "ok", written |-> 0]

\* the calls that end before the body is kept: no connection, 404, a declared length
\* over the limit, a malformed length, text/html, a body that breaks off
FailingEnvs ==
    { [PlainEnv EXCEPT !.net = "error"],
      [PlainEnv EXCEPT !.status = 404],
      [PlainEnv EXCEPT !.headers = Headers(Sent(Len_over_limit), Sent(Type_png))],
      [PlainEnv EXCEPT !.headers = Headers(Sent(Len_malformed), Sent(Type_png))],
      [PlainEnv EXCEPT !.headers = Headers(Absent, Sent(Type_html))],
      [PlainEnv EXCEPT !.bodyRead = "error"] }

\* the calls that reach the duplicate check: every body with a write that succeeds,
\* and the longest body with a write that fails at open() or after k bytes
StoringEnvs ==
    {[PlainEnv EXCEPT !.body = b] : b \in Bodies}
    \cup {[PlainEnv EXCEPT !.body = <<0, 1>>, !.write = "open_fails"]}
    \cup {[PlainEnv EXCEPT !.body = <<0, 1>>, !.write = "write_fails", !.written = k] :
             k \in 0..1}

Envs == FailingEnvs \cup StoringEnvs

\* lines typed at "Please enter the image URL"
SingleLines == {Url_a_png, Url_img}

\* entries of a list handed to download_multiple_images
BatchEntries == {Line_padded, Line_blank}

BatchLists == UNION {[1..n -> BatchEntries] : n \in 1..MaxBatch}

NoFiles == [name \in {} |-> RegularFile(<< >>)]

NoDir == [exists |-> FALSE, files |-> NoFiles]

\* Fetched_Images as the program may find it at startup: absent; empty; holding one
\* image; holding a file that cannot be read and a subdirectory
InitialDirs ==
    { NoDir,
      [exists |-> TRUE, files |-> NoFiles],
      [exists |-> TRUE, files |-> (Name_a_png :> RegularFile(<<0>>))],
      [exists |-> TRUE,
       files  |-> (Name_a_png :> [kind |-> "file", readable |-> FALSE, content |-> <<1>>])
                  @@ (Name_a_1_png :> [kind |-> "dir", readable |-> FALSE, content |-> << >>])] }

(***************************************************************************)
(* The state machine: main() constructs the fetcher, creates the directory *)
(* and then calls download_single_image and download_multiple_images as    *)
(* the user asks, until the user exits.                                    *)
(***************************************************************************)
VARIABLES
    pc,                    \* where main() is
    fs,                    \* the Fetched_Images directory
    downloaded_hashes,     \* self.downloaded_hashes
    scanned,               \* the directory as load_existing_hashes found it
    calls,                 \* download_single_image calls made so far
    last,                  \* the last download_single_image call: url, env, result
    stored,                \* the files written by calls that returned "accepted"
    urls,                  \* download_multiple_images: its argument
    i,                     \* download_multiple_images: the loop index
    successful_downloads,  \* download_multiple_images: the counter
    attempted,             \* download_multiple_images: the calls it made, in order
    returned,              \* download_multiple_images: the value returned, -1 before
    fetches,               \* download_single_image run statement by statement: its locals
    overlapped             \* two such runs were in progress at the same time

vars == <<pc, fs, downloaded_hashes, scanned, calls, last, stored, urls, i,
          successful_downloads, attempted, returned, fetches, overlapped>>

batchVars == <<urls, i, successful_downloads, attempted, returned>>

stepVars == <<fetches, overlapped>>

\* the runs of download_single_image that are followed statement by statement
Fetchers == 1..MaxCalls

\* the locals of a run that has not started
Idle ==
    [pc |-> "idle", url |-> << >>, env |-> PlainEnv, content |-> << >>, read |-> FALSE,
     filename |-> << >>, base_name |-> << >>, extension |-> << >>, counter |-> 0,
     wrote |-> << >>, tag |-> "none", ret |-> FALSE, trace |-> << >>]

NoCall == [url |-> << >>, env |-> PlainEnv, result |-> Returned("none", FALSE, "none", << >>)]

Init ==
    /\ pc = "start"
    /\ fs \in InitialDirs
    /\ downloaded_hashes = {}
    /\ scanned = NoDir
    /\ calls = 0
    /\ last = NoCall
    /\ stored = {}
    /\ urls = << >>
    /\ i = 1
    /\ successful_downloads = 0
    /\ attempted = << >>
    /\ returned = -1
    /\ fetches = [t \in Fetchers |-> Idle]
    /\ overlapped = FALSE

\* UbuntuImageFetcher.__init__
Construct ==
    /\ pc = "start"
    /\ downloaded_hashes' = load_existing_hashes(fs, {})
    /\ scanned' = fs
    /\ pc' = "constructed"
    /\ UNCHANGED <<fs, calls, last, stored, batchVars, stepVars>>

\* os.makedirs(fetcher.download_dir, exist_ok=True)
MakeDirs ==
    /\ pc = "constructed"
    /\ fs' = [fs EXCEPT !.exists = TRUE]
    /\ pc' = "menu"
    /\ UNCHANGED <<downloaded_hashes, scanned, calls, last, stored, batchVars, stepVars>>

\* one call of download_single_image(url) in which the world does env
Call(url, env) ==
    LET out == download_single_image(url, env, fs, downloaded_hashes)
    IN  /\ fs' = out.fs
        /\ downloaded_hashes' = out.hashes
        /\ last' = [url |-> url, env |-> env, result |-> out.result]
        /\ stored' = IF out.result.tag = "accepted"
                      THEN stored \cup {[filename |-> out.result.filename,
                                         content  |-> env.body]}
                      ELSE stored
        /\ calls' = calls + 1

\* choice '1' with a URL typed
SingleDownload(line, env) ==
    /\ pc = "menu"
    /\ calls < MaxCalls
    /\ Strip(line) # << >>
    /\ Call(Strip(line), env)
    /\ pc' = IF last'.result.escaped THEN "crashed" ELSE "menu"
    /\ UNCHANGED <<scanned, batchVars, stepVars>>

NonBlank(list) == {k \in 1..Len(list) : Strip(list[k]) # << >>}

\* download_multiple_images(urls): the call and successful_downloads = 0
BatchStart(list) ==
    /\ pc = "menu"
    /\ calls + Cardinality(NonBlank(list)) <= MaxCalls
    /\ urls' = list
    /\ i' = 1
    /\ successful_downloads' = 0
    /\ attempted' = << >>
    /\ returned' = -1
    /\ pc' = "batch"
    /\ UNCHANGED <<fs, downloaded_hashes, scanned, calls, last, stored, stepVars>>

\* successful_downloads counting every call
Counted_every_call(count, ok) == count + 1

\* if self.download_single_image(url): successful_downloads += 1
Counted(count, ok) == IF ok THEN count + 1 ELSE count

\* one iteration of the loop over a non-blank entry
BatchDownload(env) ==
    /\ pc = "batch"
    /\ i <= Len(urls)
    /\ Strip(urls[i]) # << >>
    /\ Call(Strip(urls[i]), env)
    /\ attempted' = Append(attempted, [url |-> Strip(urls[i]), tag |-> last'.result.tag])
    /\ successful_downloads' = Counted(successful_downloads, last'.result.ret)
    /\ i' = i + 1
    /\ pc' = IF last'.result.escaped THEN "crashed" ELSE "batch"
    /\ UNCHANGED <<scanned, urls, returned, stepVars>>

\* one iteration of the loop over a blank entry
BatchSkip ==
    /\ pc = "batch"
    /\ i <= Len(urls)
    /\ Strip(urls[i]) = << >>
    /\ i' = i + 1
    /\ UNCHANGED <<pc, fs, downloaded_hashes, scanned, calls, last, stored, urls,
                   successful_downloads, attempted, returned, stepVars>>

\* return successful_downloads: the locals of the call are gone
BatchReturn ==
    /\ pc = "batch"
    /\ i > Len(urls)
    /\ returned' = successful_downloads
    /\ urls' = << >>
    /\ i' = 1
    /\ successful_downloads' = 0
    /\ attempted' = << >>
    /\ pc' = "menu"
    /\ UNCHANGED <<fs, downloaded_hashes, scanned, calls, last, stored, stepVars>>

\* choice '3'
Exit ==
    /\ pc = "menu"
    /\ pc' = "exit"
    /\ UNCHANGED <<fs, downloaded_hashes, scanned, calls, last, stored, batchVars, stepVars>>

Single == \E line \in SingleLines, env \in Envs : SingleDownload(line, env)

Batch == \E list \in BatchLists : BatchStart(list)

BatchStep == \E env \in Envs : BatchDownload(env)

Next ==
    \/ Construct
    \/ MakeDirs
    \/ Single
    \/ Batch
    \/ BatchStep
    \/ BatchSkip
    \/ BatchReturn
    \/ Exit

Spec == Init /\ [][Next]_vars

(***************************************************************************)
(* The first call of a run, over every combination of URL, status,         *)
(* content-length, content-type and redirect of the model.                 *)
(***************************************************************************)
WideLines ==
    {Url_a_png, Url_img, Url_a_exe, Url_dotdot, Url_b_PNG, Url_a_dot, Url_hidden,
     Url_d_e_f, Url_query}

WideLengths ==
    {Absent, Sent(<< >>), Sent(Len_small), Sent(Len_at_limit), Sent(Len_over_limit),
     Sent(Len_padded), Sent(Len_malformed)}

WideTypes ==
    {Absent, Sent(<< >>), Sent(Type_png), Sent(Type_PNG), Sent(Type_html), Sent(Type_svg),
     Sent(Type_jpeg_params)}

WideEnvs ==
    {[PlainEnv EXCEPT !.status = st, !.headers = Headers(cl, ct), !.redirect = rd,
                      !.body = <<0>>] :
        st \in {200, 304, 404}, cl \in WideLengths, ct \in WideTypes,
        rd \in {<< >>, Url_r_png, Url_r_exe}}

FirstCall ==
    \E line \in WideLines, env \in WideEnvs : calls = 0 /\ SingleDownload(line, env)

NextWide ==
    \/ Construct
    \/ MakeDirs
    \/ FirstCall

SpecWide == Init /\ [][NextWide]_vars

(***************************************************************************)
(* download_single_image statement by statement.  A run keeps its locals   *)
(* in fetches[t]: pc is the statement it is at, read whether               *)
(* response.content has been evaluated, wrote the name it opened for       *)
(* writing, trace the stages it has run.  requests.get is called with      *)
(* stream=True, so the body is pulled by response.content and not before.  *)
(***************************************************************************)
\* the order of the statements with the body read before the size check
StageAfter_body_early(stage) ==
    CASE stage = "request"   -> "body"
      [] stage = "body"      -> "size"
      [] stage = "size"      -> "type"
      [] stage = "type"      -> "dedup"
      [] stage = "dedup"     -> "naming"
      [] stage = "naming"    -> "placement"

\* the statement download_single_image goes on to when a stage lets the run continue
StageAfter(stage) ==
    CASE stage = "request"   -> "size"
      [] stage = "size"      -> "type"
      [] stage = "type"      -> "body"
      [] stage = "body"      -> "dedup"
      [] stage = "dedup"     -> "naming"
      [] stage = "naming"    -> "placement"

\* the run is inside download_single_image
Running(f) == f.pc \notin {"idle", "done"}

\* the run at the start of a stage
Entering(f, stage) == [f EXCEPT !.trace = Append(@, stage)]

\* a return statement or a handler ends the run
Finish(f, result) == [f EXCEPT !.pc = "done", !.tag = result.tag, !.ret = result.ret]

\* the stage is passed
Continue(f, stage) == [f EXCEPT !.pc = StageAfter(stage)]

\* download_single_image(url) is called
Begin(t, url, env) ==
    /\ pc = "menu"
    /\ fetches[t].pc = "idle"
    /\ fetches' = [fetches EXCEPT ![t] = [Idle EXCEPT !.pc = "request", !.url = url,
                                                       !.env = env]]
    /\ overlapped' = (overlapped \/ \E o \in Fetchers \ {t} : Running(fetches[o]))
    /\ UNCHANGED <<pc, fs, downloaded_hashes, scanned, calls, last, stored, batchVars>>

\* the step of run t that leaves it as next, the directory and the index untouched
LocalStep(t, next) ==
    /\ fetches' = [fetches EXCEPT ![t] = next]
    /\ UNCHANGED <<pc, fs, downloaded_hashes, scanned, calls, last, stored, batchVars,
                   overlapped>>

\* requests.get(...) and response.raise_for_status()
Request(t) ==
    LET f == Entering(fetches[t], "request")
    IN  /\ fetches[t].pc = "request"
        /\ LocalStep(t, IF f.env.net = "error"
                        THEN Finish(f, Raised("ConnectionError", "request"))
                        ELSE IF IsErrorStatus(f.env.status)
                        THEN Finish(f, Raised("HTTPError", "request"))
                        ELSE Continue(f, "request"))

\* the content-length check
SizeCheck(t) ==
    LET f == Entering(fetches[t], "size")
        content_length == HeaderGet(f.env.headers, "content-length", << >>)
    IN  /\ fetches[t].pc = "size"
        /\ LocalStep(t, IF /\ HeaderTruthy(f.env.headers, "content-length")
                           /\ ~IsIntLiteral(content_length)
                        THEN Finish(f, Raised("ValueError", "size"))
                        ELSE IF /\ HeaderTruthy(f.env.headers, "content-length")
                                /\ ExceedsLimit(content_length)
                        THEN Finish(f, Returned("TooLarge", FALSE, "size", << >>))
                        ELSE Continue(f, "size"))

\* if not self.is_safe_file_type(response)
TypeCheck(t) ==
    LET f == Entering(fetches[t], "type")
    IN  /\ fetches[t].pc = "type"
        /\ LocalStep(t, IF ~is_safe_file_type(Response(f.url, f.env))
                        THEN Finish(f, Returned("UnsafeType", FALSE, "type", << >>))
                        ELSE Continue(f, "type"))

\* content = response.content
ReadBody(t) ==
    LET f == [Entering(fetches[t], "body") EXCEPT !.read = TRUE]
    IN  /\ fetches[t].pc = "body"
        /\ LocalStep(t, IF f.env.bodyRead = "error"
                        THEN Finish(f, Raised("ChunkedEncodingError", "body"))
                        ELSE Continue([f EXCEPT !.content = f.env.body], "body"))

\* if self.is_duplicate(content)
DedupCheck(t) ==
    LET f == Entering(fetches[t], "dedup")
    IN  /\ fetches[t].pc = "dedup"
        /\ LocalStep(t, IF is_duplicate(f.content, downloaded_hashes)
                        THEN Finish(f, Returned("duplicate", TRUE, "dedup", << >>))
                        ELSE Continue(f, "dedup"))

\* filename = self.get_filename_from_url(url, response)
Naming(t) ==
    LET f == Entering(fetches[t], "naming")
    IN  /\ fetches[t].pc = "naming"
        /\ LocalStep(t, Continue([f EXCEPT !.filename =
                                     get_filename_from_url(f.url, Response(f.url, f.env))],
                                 "naming"))

\* counter = 1; base_name, extension = os.path.splitext(filename)
Reserve(t) ==
    LET f == Entering(fetches[t], "placement")
    IN  /\ fetches[t].pc = "placement"
        /\ LocalStep(t, [f EXCEPT !.pc = "probe", !.counter = 1,
                                  !.base_name = SplitExt(f.filename)[1],
                                  !.extension = SplitExt(f.filename)[2]])

\* counter left as it is
NextCounter_stuck(counter) == counter

\* counter += 1
NextCounter(counter) == counter + 1

\* one test of while os.path.exists(filepath), and the body of the loop when it holds
ProbeStep(t) ==
    LET f == fetches[t]
    IN  /\ f.pc = "probe"
        /\ LocalStep(t, IF PathExists(fs, f.filename)
                        THEN [f EXCEPT !.filename =
                                           Suffixed(f.base_name, f.counter, f.extension),
                                       !.counter = NextCounter(f.counter)]
                        ELSE [f EXCEPT !.pc = "write"])

\* with open(filepath, 'wb') as f: f.write(content)
Write(t) ==
    LET f == fetches[t]
        opened == [f EXCEPT !.wrote = f.filename]
    IN  /\ f.pc = "write"
        /\ IF ~fs.exists \/ f.env.write = "open_fails"
           THEN /\ fetches' = [fetches EXCEPT ![t] = Finish(f, Raised("OSError", "placement"))]
                /\ fs' = fs
           ELSE IF f.env.write = "write_fails"
           THEN /\ fetches' = [fetches EXCEPT ![t] =
                                  Finish(opened, Raised("OSError", "placement"))]
                /\ fs' = WriteFile(fs, f.filename, SubSeq(f.content, 1, f.env.written))
           ELSE /\ fetches' = [fetches EXCEPT ![t] = [opened EXCEPT !.pc = "add"]]
                /\ fs' = WriteFile(fs, f.filename, f.content)
        /\ UNCHANGED <<pc, downloaded_hashes, scanned, calls, last, stored, batchVars,
                       overlapped>>

\* self.downloaded_hashes.add(self.get_file_hash(content)) and return True
AddHashStep(t) ==
    LET f == fetches[t]
    IN  /\ f.pc = "add"
        /\ downloaded_hashes' = AddHash(downloaded_hashes, f.content)
        /\ fetches' = [fetches EXCEPT ![t] =
                          Finish(f, Returned("accepted", TRUE, "placement", f.filename))]
        /\ UNCHANGED <<pc, fs, scanned, calls, last, stored, batchVars, overlapped>>

\* the statements of the placement stage: the unique name, the write, the index
Placement(t) ==
    \/ Reserve(t)
    \/ ProbeStep(t)
    \/ Write(t)
    \/ AddHashStep(t)

\* the statement run t is at
Step(t) ==
    \/ Request(t)
    \/ SizeCheck(t)
    \/ TypeCheck(t)
    \/ ReadBody(t)
    \/ DedupCheck(t)
    \/ Naming(t)
    \/ Reserve(t)
    \/ ProbeStep(t)
    \/ Write(t)
    \/ AddHashStep(t)

(***************************************************************************)
(* One call followed statement by statement, from every directory found at *)
(* startup.  A call that has reached the placement stage runs on: the      *)
(* interpreter does not stop between two statements.                       *)
(***************************************************************************)
StageLines ==
    {Url_a_png, Url_img, Url_a_exe, Url_dotdot, Url_b_PNG, Url_a_dot, Url_hidden,
     Url_d_e_f, Url_query, Url_params, Url_param_ext, Url_dir, Url_host}

StageTypes ==
    {Absent, Sent(<< >>), Sent(Type_png), Sent(Type_PNG), Sent(Type_jpeg_params),
     Sent(Type_jpg), Sent(Type_gif), Sent(Type_webp), Sent(Type_bmp), Sent(Type_gif_png)}

\* the outcomes of Envs, and every content-type with and without a redirect
StageEnvs ==
    Envs \cup {[PlainEnv EXCEPT !.body = <<1>>, !.headers = Headers(Absent, ct),
                                !.redirect = rd] :
                  ct \in StageTypes, rd \in {<< >>, Url_r_png, Url_r_exe}}

BeginOne == \E line \in StageLines, env \in StageEnvs : Begin(1, line, env)

StepOne == Step(1)

NextStages ==
    \/ Construct
    \/ MakeDirs
    \/ BeginOne
    \/ StepOne

SpecStages == Init /\ [][NextStages]_vars /\ WF_vars(Placement(1))

(***************************************************************************)
(* Calls of download_single_image on one fetcher that may be in progress   *)
(* together, their statements interleaved in any order: what threads       *)
(* sharing the fetcher would do.  The calls are numbered in the order they *)
(* start.                                                                  *)
(***************************************************************************)
InterleavedLines == {Url_a_png}

InterleavedEnvs == {[PlainEnv EXCEPT !.body = b] : b \in {<<0>>, <<1>>}}

BeginAny ==
    \E t \in Fetchers, line \in InterleavedLines, env \in InterleavedEnvs :
        /\ \A o \in 1..(t - 1) : fetches[o].pc # "idle"
        /\ Begin(t, line, env)

StepAny == \E t \in Fetchers : Step(t)

NextInterleaved ==
    \/ Construct
    \/ MakeDirs
    \/ BeginAny
    \/ StepAny

SpecInterleaved == Init /\ [][NextInterleaved]_vars

(***************************************************************************)
(* Calls of download_single_image one after another, as main() and         *)
(* download_multiple_images make them, each followed statement by          *)
(* statement; fetches keeps what every call of the run was given and how   *)
(* it ended.                                                               *)
(***************************************************************************)
SequentialLines == {Url_a_png}

BeginNext ==
    \E t \in Fetchers, line \in SequentialLines, env \in Envs :
        /\ \A o \in Fetchers \ {t} : ~Running(fetches[o])
        /\ \A o \in 1..(t - 1) : fetches[o].pc # "idle"
        /\ Begin(t, line, env)

NextSequential ==
    \/ Construct
    \/ MakeDirs
    \/ BeginNext
    \/ StepAny

SpecSequential == Init /\ [][NextSequential]_vars

(***************************************************************************)
(* Properties.                                                             *)
(***************************************************************************)
\* a step that is one call of download_single_image
CallStep == calls' = calls + 1

\* the call passed the request, size and type stages and read its body
ReachedDedup(result) == result.stage \in {"dedup", "placement"}

Failures == {"NetworkError", "TooLarge", "UnsafeType", "Error"}

Successes == {"accepted", "duplicate"}

\* C1 as stated (dedup idempotence): of any two calls whose responses pass validation
\* and carry byte-identical bodies, here two calls in a row, the first writes one
\* file and the second reports duplicate and writes nothing.
DedupAnyTwoCalls ==
    [][(/\ CallStep
        /\ ReachedDedup(last.result)
        /\ ReachedDedup(last'.result)
        /\ last.env.body = last'.env.body)
       => (/\ last.result.tag = "accepted"
           /\ last'.result.tag = "duplicate"
           /\ fs' = fs
           /\ downloaded_hashes' = downloaded_hashes)]_vars

\* C1 amended (dedup idempotence): once a call has been accepted with some body,
\* every later call that passes validation with a byte-identical body, from the same
\* URL or another, returns True as a duplicate and changes neither the directory nor
\* the hash set; so accepted calls never write the same body twice.
DedupIdempotence ==
    /\ [](\A r1, r2 \in stored : r1.content = r2.content => r1 = r2)
    /\ [][(/\ CallStep
           /\ ReachedDedup(last'.result)
           /\ \E r \in stored : r.content = last'.env.body)
          => (/\ last'.result.tag = "duplicate"
              /\ last'.result.ret
              /\ fs' = fs
              /\ downloaded_hashes' = downloaded_hashes
              /\ stored' = stored)]_vars

\* C1 witness: a second call carried the body of an accepted first call
DedupWitness ==
    /\ calls = 2
    /\ last.result.tag = "duplicate"
    /\ \E r \in stored : r.content = last.env.body /\ r.filename \in DOMAIN fs.files

\* the calls of a batch that returned True
Succeeded(att) ==
    Cardinality({k \in 1..Len(att) : att[k].tag \in Successes})

\* the entries of list that are not blank, stripped, in order
RECURSIVE NonBlankStripped(_)
NonBlankStripped(list) ==
    IF list = << >> THEN << >>
    ELSE IF Strip(Head(list)) = << >> THEN NonBlankStripped(Tail(list))
    ELSE <<Strip(Head(list))>> \o NonBlankStripped(Tail(list))

AttemptedUrls == [k \in 1..Len(attempted) |-> attempted[k].url]

\* C2 (batch accounting): download_multiple_images returns the number of its calls
\* that were accepted or duplicates, and calls download_single_image once for every
\* non-blank entry, in order, whatever the earlier calls returned: with no blank
\* entry in a list of N, all N are attempted.
BatchAccounting ==
    /\ [](pc = "batch" =>
            /\ successful_downloads = Succeeded(attempted)
            /\ AttemptedUrls = NonBlankStripped(SubSeq(urls, 1, i - 1)))
    /\ [][(pc = "batch" /\ pc' = "menu") =>
            /\ returned' = Succeeded(attempted)
            /\ AttemptedUrls = NonBlankStripped(urls)
            /\ (NonBlank(urls) = 1..Len(urls) => Len(attempted) = Len(urls))]_vars

\* C2 witness: a batch of two is about to return after a failure and then a success
BatchWitness ==
    /\ pc = "batch"
    /\ i > Len(urls)
    /\ Len(urls) = 2
    /\ Len(attempted) = 2
    /\ attempted[1].tag \in Failures
    /\ attempted[2].tag = "accepted"
    /\ successful_downloads = 1

\* C3 (collision-free naming): a call that writes a file writes it to the derived
\* name when that name is free, and otherwise to base_N.ext for the least N >= 1
\* whose name is free; the name written to did not exist before the call, and it is
\* the name an accepted call reports.
CollisionFreeNaming ==
    [][(CallStep /\ (fs' # fs \/ last'.result.tag = "accepted")) =>
         LET derived   == get_filename_from_url(last'.url, Response(last'.url, last'.env))
             base_name == SplitExt(derived)[1]
             extension == SplitExt(derived)[2]
         IN  \E chosen \in DOMAIN fs'.files :
                /\ ~PathExists(fs, chosen)
                /\ last'.result.tag = "accepted" => last'.result.filename = chosen
                /\ ~PathExists(fs, derived) => chosen = derived
                /\ PathExists(fs, derived) =>
                     \E n \in 1..(Cardinality(DOMAIN fs.files) + 1) :
                         /\ chosen = Suffixed(base_name, n, extension)
                         /\ \A m \in 1..(n - 1) :
                               PathExists(fs, Suffixed(base_name, m, extension))]_vars

\* C3 witness: a.png and a_1.png were taken and the call wrote a_2.png
NamingWitness ==
    /\ last.result.tag = "accepted"
    /\ last.result.filename = <<"a", "_", "2", ".", "p", "n", "g">>
    /\ {Name_a_png, Name_a_1_png} \subseteq DOMAIN fs.files

\* C4 (size boundary): a response that arrived without an error status is rejected as
\* too large exactly when it declares a content-length that is a number greater than
\* 10485760; 10485760 itself passes, 10485761 does not, no header never does.
SizeBoundary ==
    (calls > 0 /\ last.env.net = "ok" /\ ~IsErrorStatus(last.env.status)) =>
        LET h == last.env.headers
            declared == "content-length" \in DOMAIN h
        IN  /\ last.result.tag = "TooLarge" <=>
                  /\ declared
                  /\ IsIntLiteral(h["content-length"])
                  /\ ParseInt(h["content-length"]) > 10485760
            /\ ~declared => last.result.tag # "TooLarge"
            /\ (declared /\ h["content-length"] = Len_at_limit) =>
                  last.result.tag # "TooLarge"
            /\ (declared /\ h["content-length"] = Len_over_limit) =>
                  last.result.tag = "TooLarge"

\* C4 witness: a response declaring exactly 10485760 bytes was accepted
SizeWitness ==
    /\ calls > 0
    /\ "content-length" \in DOMAIN last.env.headers
    /\ last.env.headers["content-length"] = Len_at_limit
    /\ last.result.tag = "accepted"

AllowedTypes ==
    { <<"i", "m", "a", "g", "e", "/", "j", "p", "e", "g">>,
      <<"i", "m", "a", "g", "e", "/", "j", "p", "g">>,
      <<"i", "m", "a", "g", "e", "/", "p", "n", "g">>,
      <<"i", "m", "a", "g", "e", "/", "g", "i", "f">>,
      <<"i", "m", "a", "g", "e", "/", "w", "e", "b", "p">>,
      <<"i", "m", "a", "g", "e", "/", "b", "m", "p">> }

AllowedExtensions ==
    { <<".", "j", "p", "g">>, <<".", "j", "p", "e", "g">>, <<".", "p", "n", "g">>,
      <<".", "g", "i", "f">>, <<".", "w", "e", "b", "p">>, <<".", "b", "m", "p">> }

\* the call got as far as the file type check
ReachedTypeCheck(result) == result.stage \notin {"none", "request", "size"}

\* the extension of the path of the response's URL
ResponseExtension(call) == SplitExt(UrlPath(Response(call.url, call.env).url))[2]

\* (b): the URL path has an extension that is not allow-listed, whatever its case
ExtensionDisallowed(call) ==
    /\ ResponseExtension(call) # << >>
    /\ Lower(ResponseExtension(call)) \notin AllowedExtensions

\* (a) as the claim words it: the header is present and holds no allow-listed type
TypeDisallowedAsWorded(call) ==
    /\ "content-type" \in DOMAIN call.env.headers
    /\ \A t \in AllowedTypes : ~Contains(call.env.headers["content-type"], t)

\* (a) as the code has it: the header is present, not empty, and holds no allow-listed
\* type once lower-cased
TypeDisallowed(call) ==
    /\ "content-type" \in DOMAIN call.env.headers
    /\ call.env.headers["content-type"] # << >>
    /\ \A t \in AllowedTypes : ~Contains(Lower(call.env.headers["content-type"]), t)

\* C5 as stated (type allow-list): the type check rejects exactly when (a) the
\* content-type header is present and contains no allow-listed type or (b) the URL
\* path has an extension that is not allow-listed.
TypeAllowListAsWorded ==
    (calls > 0 /\ ReachedTypeCheck(last.result)) =>
        (last.result.tag = "UnsafeType" <=>
            (TypeDisallowedAsWorded(last) \/ ExtensionDisallowed(last)))

\* C5 amended (type allow-list): the type check rejects exactly when (a) the
\* content-type header is present with a non-empty value that, lower-cased, contains
\* no allow-listed type or (b) the path of the response's URL has an extension that
\* is not allow-listed whatever its case. text/html is rejected whatever the
\* extension, no content-type with .png passes, image/png with .exe is rejected.
TypeAllowList ==
    (calls > 0 /\ ReachedTypeCheck(last.result)) =>
        LET h == last.env.headers
            typed == "content-type" \in DOMAIN h
        IN  /\ last.result.tag = "UnsafeType" <=>
                  (TypeDisallowed(last) \/ ExtensionDisallowed(last))
            /\ (typed /\ h["content-type"] = Type_html) => last.result.tag = "UnsafeType"
            /\ (~typed /\ ResponseExtension(last) = <<".", "p", "n", "g">>) =>
                  last.result.tag # "UnsafeType"
            /\ (typed /\ h["content-type"] = Type_png
                      /\ ResponseExtension(last) = <<".", "e", "x", "e">>) =>
                  last.result.tag = "UnsafeType"

\* C5 witness: image/png from a URL ending in .exe was rejected
TypeWitness ==
    /\ calls > 0
    /\ last.url = Url_a_exe
    /\ last.env.redirect = << >>
    /\ "content-type" \in DOMAIN last.env.headers
    /\ last.env.headers["content-type"] = Type_png
    /\ last.result.tag = "UnsafeType"

\* C6 (no failure escapes): every call of download_single_image returns True or
\* False; an exception raised inside it (no connection, an error status, a malformed
\* content-length, a body that breaks off, a failed write) ends in a handler that
\* returns False, and an unsafe type or an oversized response is returned as False.
NoFailureEscapes ==
    /\ pc # "crashed"
    /\ ~last.result.escaped
    /\ calls > 0 =>
         /\ last.result.tag \in Successes \cup Failures
         /\ last.result.ret <=> last.result.tag \in Successes
         /\ last.result.exc # "none" => last.result.tag \in {"NetworkError", "Error"}
         /\ (last.env.net = "error" \/ IsErrorStatus(last.env.status)) =>
               last.result.tag = "NetworkError"

\* C6 witness: the write failed and the call returned False
EscapeWitness ==
    /\ last.result.exc = "OSError"
    /\ last.result.tag = "Error"
    /\ ~last.result.ret
    /\ pc \in {"menu", "batch"}

\* C7 (checks before writes): a call that ends in a network error, too large or
\* unsafe type leaves the directory and the hash set as they were; the directory
\* changes only in a call whose request succeeded, whose declared length and type
\* passed, whose body was read and whose hash was not in the hash set.
ChecksBeforeWrites ==
    [][CallStep =>
         /\ last'.result.tag \in {"NetworkError", "TooLarge", "UnsafeType"} =>
               (fs' = fs /\ downloaded_hashes' = downloaded_hashes)
         /\ (fs' # fs \/ downloaded_hashes' # downloaded_hashes) =>
               /\ last'.env.net = "ok"
               /\ ~IsErrorStatus(last'.env.status)
               /\ ~TypeDisallowed(last') /\ ~ExtensionDisallowed(last')
               /\ HeaderTruthy(last'.env.headers, "content-length") =>
                     /\ IsIntLiteral(last'.env.headers["content-length"])
                     /\ ParseInt(last'.env.headers["content-length"]) <= 10485760
               /\ last'.env.bodyRead = "ok"
               /\ md5(last'.env.body) \notin downloaded_hashes
               /\ last'.result.stage = "placement"]_vars

\* C7 witness: a call was rejected as too large while the directory held files
ChecksWitness ==
    /\ last.result.tag = "TooLarge"
    /\ DOMAIN fs.files # {}
    /\ downloaded_hashes # {}

\* the bodies of the regular files the directory held when it was scanned
ScannedBodies ==
    {scanned.files[n].content : n \in {m \in DOMAIN scanned.files :
                                          scanned.files[m].kind = "file"}}

\* the bodies of those of them that could be read
ScannedReadableBodies == {scanned.files[n].content : n \in Hashable(scanned)}

\* C8 as stated (fresh start): a call whose validated body equals any regular file
\* the directory held at the scan reports duplicate.
FreshStartAnyFile ==
    (calls > 0 /\ ReachedDedup(last.result) /\ last.env.body \in ScannedBodies) =>
        last.result.tag = "duplicate"

\* C8 amended (fresh start): a call whose validated body equals a regular file the
\* directory held at the scan, and that the scan could read, reports duplicate and
\* writes nothing.
FreshStartReadable ==
    [][(CallStep /\ ReachedDedup(last'.result) /\ last'.env.body \in ScannedReadableBodies)
          => (/\ last'.result.tag = "duplicate"
              /\ last'.result.ret
              /\ fs' = fs
              /\ stored' = stored)]_vars

\* C8 witness: nothing had been stored yet and the body of a scanned file came back
FreshStartWitness ==
    /\ calls > 0
    /\ stored = {}
    /\ last.env.body \in ScannedReadableBodies
    /\ last.result.tag = "duplicate"
    /\ fs = [scanned EXCEPT !.exists = TRUE]

\* C9 as stated (index/directory invariant): after initialization the hash of every
\* file in the directory is in the hash set.
IndexCoversEveryFile ==
    pc # "start" =>
        \A n \in DOMAIN fs.files :
            fs.files[n].kind = "file" => md5(fs.files[n].content) \in downloaded_hashes

\* C9 amended (index/directory invariant): after initialization the hash set holds
\* the hash of every file the scan could read and of every file an accepted call
\* wrote, those files are still in the directory with those bytes, and the hash set
\* only grows.
IndexCoversReadable ==
    /\ [](pc # "start" =>
            /\ \A n \in Hashable(scanned) :
                  /\ md5(scanned.files[n].content) \in downloaded_hashes
                  /\ n \in DOMAIN fs.files /\ fs.files[n] = scanned.files[n]
            /\ \A r \in stored :
                  /\ md5(r.content) \in downloaded_hashes
                  /\ r.filename \in DOMAIN fs.files
                  /\ fs.files[r.filename] = RegularFile(r.content))
    /\ [][downloaded_hashes \subseteq downloaded_hashes']_vars

\* C9 witness: the index covers a scanned file and a stored one
IndexWitness ==
    /\ pc = "menu"
    /\ Hashable(scanned) # {}
    /\ stored # {}
    /\ Cardinality(downloaded_hashes) = 2

\* C10 (no clobber): no call changes or removes a file that was in the directory; an
\* accepted call adds one file, under a name that was not there, holding the body,
\* and adds one hash, the body's, to the hash set.
NoClobber ==
    [][CallStep =>
         /\ \A n \in DOMAIN fs.files :
               n \in DOMAIN fs'.files /\ fs'.files[n] = fs.files[n]
         /\ last'.result.tag = "accepted" =>
               /\ \E n \in DOMAIN fs'.files :
                     /\ n \notin DOMAIN fs.files
                     /\ DOMAIN fs'.files = DOMAIN fs.files \cup {n}
                     /\ fs'.files[n] = RegularFile(last'.env.body)
               /\ md5(last'.env.body) \notin downloaded_hashes
               /\ downloaded_hashes' = downloaded_hashes \cup {md5(last'.env.body)}]_vars

\* C10 witness: a.png was there and the call wrote a_1.png beside it
ClobberWitness ==
    /\ last.result.tag = "accepted"
    /\ last.result.filename = Name_a_1_png
    /\ Name_a_png \in DOMAIN fs.files
    /\ fs.files[Name_a_png].content # last.env.body

\* the stages of one fetch, in the order the claim gives them
StageOrder == <<"request", "size", "type", "body", "dedup", "naming", "placement">>

IsPrefix(s, t) == Len(s) <= Len(t) /\ s = SubSeq(t, 1, Len(s))

\* C11 (stage ordering): the stages a fetch has run are always an initial part of
\* request, size-limit, type-safety, body read, deduplication, naming, placement; a
\* fetch rejected as TooLarge stopped after the size stage and one rejected as
\* UnsafeType after the type stage, neither having read any of the body; a duplicate
\* stopped after deduplication and an accepted fetch ran all seven.
StageOrdering ==
    \A t \in Fetchers :
        LET f == fetches[t]
        IN  /\ IsPrefix(f.trace, StageOrder)
            /\ f.tag \in {"TooLarge", "UnsafeType"} => (~f.read /\ f.content = << >>)
            /\ f.tag = "TooLarge" => f.trace = SubSeq(StageOrder, 1, 2)
            /\ f.tag = "UnsafeType" => f.trace = SubSeq(StageOrder, 1, 3)
            /\ f.tag = "duplicate" => f.trace = SubSeq(StageOrder, 1, 5)
            /\ f.tag = "accepted" => f.trace = StageOrder
            /\ f.read => Len(f.trace) >= 4

\* C11 witness: a response with a body was rejected as an unsafe type, unread
StageWitness ==
    /\ fetches[1].pc = "done"
    /\ fetches[1].tag = "UnsafeType"
    /\ fetches[1].env.body # << >>
    /\ ~fetches[1].read
    /\ fetches[1].trace = <<"request", "size", "type">>

\* the call ended in the handler because open() or f.write() raised
WriteFailed(result) == result.stage = "placement" /\ result.exc = "OSError"

\* C12 (storage failure is local): a call whose write fails returns False, adds no
\* hash, leaves the directory as it was, and a following call with the same body is
\* not reported as a duplicate.
StorageFailureLocal ==
    /\ [][(CallStep /\ WriteFailed(last'.result)) =>
            /\ ~last'.result.ret
            /\ downloaded_hashes' = downloaded_hashes
            /\ fs' = fs]_vars
    /\ [][(/\ CallStep
           /\ WriteFailed(last.result)
           /\ ReachedDedup(last'.result)
           /\ last'.env.body = last.env.body) => last'.result.tag # "duplicate"]_vars

\* C12, the parts that hold: the failed call returns False and adds no hash, so the
\* body is still not a duplicate for the call that follows; the directory gains at most
\* the one file the call opened, holding an initial part of the body.
StorageFailureKeepsIndex ==
    /\ [][(CallStep /\ WriteFailed(last'.result)) =>
            /\ ~last'.result.ret
            /\ downloaded_hashes' = downloaded_hashes
            /\ \A n \in DOMAIN fs.files : n \in DOMAIN fs'.files /\ fs'.files[n] = fs.files[n]
            /\ \A n \in DOMAIN fs'.files \ DOMAIN fs.files :
                  /\ DOMAIN fs'.files = DOMAIN fs.files \cup {n}
                  /\ IsPrefix(fs'.files[n].content, last'.env.body)]_vars
    /\ [][(/\ CallStep
           /\ WriteFailed(last.result)
           /\ ReachedDedup(last'.result)
           /\ last'.env.body = last.env.body) => last'.result.tag # "duplicate"]_vars

Name_default ==
    <<"d", "o", "w", "n", "l", "o", "a", "d", "e", "d", "_", "i", "m", "a", "g", "e">>

\* the path of the URL: what follows the scheme and the host, up to "?" or "#"
PathOfUrl(url) == Before(Before(AfterNetloc(AfterScheme(LStrip(url))), "#"), "?")

\* the longest part of s at its end that holds none of the characters cs
LongestTail(s, cs) ==
    CHOOSE x \in {From(s, k) : k \in 1..(Len(s) + 1)} :
        /\ SetOf(x) \cap cs = {}
        /\ \A k \in 1..(Len(s) + 1) : SetOf(From(s, k)) \cap cs = {} => Len(From(s, k)) <= Len(x)

\* the longest part of s at its start that holds none of the characters cs
LongestHead(s, cs) ==
    CHOOSE x \in {SubSeq(s, 1, k) : k \in 0..Len(s)} :
        /\ SetOf(x) \cap cs = {}
        /\ \A k \in 0..Len(s) : SetOf(SubSeq(s, 1, k)) \cap cs = {} => k <= Len(x)

\* the last path segment of the URL
LastSegment(url) == LongestTail(PathOfUrl(url), {"/"})

\* the last path segment of the URL without its ";parameters"
LastSegmentName(url) == LongestHead(LastSegment(url), {";"})

\* the extension the claim chooses from the declared content-type
ExtensionFor(headers) ==
    LET declared == "content-type" \in DOMAIN headers
        mentions(word) == declared /\ Contains(headers["content-type"], word)
    IN  IF mentions(<<"j", "p", "e", "g">>) \/ mentions(<<"j", "p", "g">>)
        THEN <<".", "j", "p", "g">>
        ELSE IF mentions(<<"p", "n", "g">>) THEN <<".", "p", "n", "g">>
        ELSE IF mentions(<<"g", "i", "f">>) THEN <<".", "g", "i", "f">>
        ELSE IF mentions(<<"w", "e", "b", "p">>) THEN <<".", "w", "e", "b", "p">>
        ELSE <<".", "j", "p", "g">>

\* the name the claim derives when the URL's segment is segment
NameFor(segment, headers) ==
    IF segment # << >> /\ "." \in SetOf(segment)
    THEN segment
    ELSE Name_default \o ExtensionFor(headers)

\* the fetch has just derived its filename
Named(f) == f.pc = "placement"

\* C13 as stated (naming stage): the derived filename is the last path segment of the
\* URL when that segment is non-empty and contains a '.', and otherwise
\* downloaded_image plus the extension chosen from the content-type.
NamingAsWorded ==
    \A t \in Fetchers :
        Named(fetches[t]) =>
            fetches[t].filename = NameFor(LastSegment(fetches[t].url), fetches[t].env.headers)

\* C13 amended (naming stage): the derived filename is the last path segment of the
\* URL with its ";parameters" taken off, when that is non-empty and contains a '.';
\* otherwise it is downloaded_image plus .jpg if the content-type contains jpeg or jpg,
\* else .png, .gif or .webp if it contains that word, else .jpg (also when the header
\* is absent, empty, or image/bmp); the words are matched as spelled.
NamingStage ==
    \A t \in Fetchers :
        LET f == fetches[t]
        IN  Named(f) =>
              /\ f.filename = NameFor(LastSegmentName(f.url), f.env.headers)
              /\ "content-type" \notin DOMAIN f.env.headers =>
                    f.filename \in {LastSegmentName(f.url), Name_default \o <<".", "j", "p", "g">>}
              /\ f.filename # << >>

\* C13 witness: a URL whose last segment has no '.', answered as image/gif, was named
\* downloaded_image.gif
NamingStageWitness ==
    /\ Named(fetches[1])
    /\ fetches[1].url = Url_img
    /\ "content-type" \in DOMAIN fetches[1].env.headers
    /\ fetches[1].env.headers["content-type"] = Type_gif
    /\ fetches[1].filename = Name_default \o <<".", "g", "i", "f">>

\* two calls wrote byte-identical content to two files that are both in the directory
StoredTwice ==
    \E t1, t2 \in Fetchers :
        /\ t1 # t2
        /\ fetches[t1].wrote # << >> /\ fetches[t2].wrote # << >>
        /\ fetches[t1].wrote # fetches[t2].wrote
        /\ fetches[t1].content = fetches[t2].content
        /\ fs.files[fetches[t1].wrote].content = fetches[t1].content
        /\ fs.files[fetches[t2].wrote].content = fetches[t2].content

\* two calls opened the same name for writing: the later write replaced the earlier file
Overwrote ==
    \E t1, t2 \in Fetchers :
        /\ t1 # t2
        /\ fetches[t1].wrote # << >>
        /\ fetches[t1].wrote = fetches[t2].wrote

\* C14 (safety depends on sequential execution): as long as no call has started while
\* another was in progress, no content has been stored twice and no call has written
\* over the file of another; the duplicate check and the hash insert, and the probe
\* and the write, are separate steps, and with calls interleaved both bad states are
\* reached.
SequentialSafety == ~overlapped => (~StoredTwice /\ ~Overwrote)

\* C14 witness: two interleaved calls stored the same bytes as a.png and a_1.png
InterleavedWitness ==
    /\ overlapped
    /\ StoredTwice
    /\ \A t \in 1..2 : fetches[t].tag = "accepted"

\* C14, the other state interleaving reaches: a call wrote over the file the other
\* had just written, whose bytes are gone from the directory while their hash stays
InterleavedOverwrite ==
    /\ overlapped
    /\ Overwrote
    /\ \E t \in Fetchers :
          /\ fetches[t].tag = "accepted"
          /\ fs.files[fetches[t].wrote].content # fetches[t].content
          /\ md5(fetches[t].content) \in downloaded_hashes

\* the call ended in the handler because open() or f.write() raised
WriteFailedIn(f) ==
    f.pc = "done" /\ f.tag = "Error" /\ f.trace = StageOrder

\* no call is in progress
Quiescent == \A t \in Fetchers : ~Running(fetches[t])

\* C15 (implicit: no duplicate contents): when the directory was empty or absent at
\* startup and no call's write has failed, then between calls no two files of the
\* directory hold the same bytes and the directory holds as many files as the hash
\* set holds hashes, also when distinct bodies share a digest.
NoDuplicateContents ==
    (/\ pc = "menu"
     /\ DOMAIN scanned.files = {}
     /\ Quiescent
     /\ \A t \in Fetchers : ~WriteFailedIn(fetches[t])) =>
        /\ \A n1, n2 \in DOMAIN fs.files :
              fs.files[n1].content = fs.files[n2].content => n1 = n2
        /\ Cardinality(DOMAIN fs.files) = Cardinality(downloaded_hashes)

\* C15 witness: from an empty directory two calls stored two different bodies
NoDuplicateWitness ==
    /\ pc = "menu"
    /\ DOMAIN scanned.files = {}
    /\ \A t \in 1..2 : fetches[t].pc = "done" /\ fetches[t].tag = "accepted"
    /\ Cardinality(DOMAIN fs.files) = 2
    /\ Cardinality(downloaded_hashes) = 2

\* the files the calls of the run have put into the directory
WrittenNames == DOMAIN fs.files \ DOMAIN scanned.files

\* C16 (implicit: written extensions are allow-listed): every file a call has written
\* has a name whose extension is, whatever its case, one of .jpg, .jpeg, .png, .gif,
\* .webp, .bmp, for every requested URL and every response.
WrittenExtensionsAllowed ==
    pc # "start" =>
        \A n \in WrittenNames : Lower(SplitExt(n)[2]) \in AllowedExtensions

\* C16, what holds instead: the extension of the response's URL is allow-listed or
\* absent for every file written; the name written comes from the requested URL
WrittenAfterResponseUrlPassed ==
    (calls > 0 /\ WrittenNames # {}) =>
        /\ ~ExtensionDisallowed(last)
        /\ \A n \in WrittenNames :
              n = UniqueName([scanned EXCEPT !.exists = TRUE],
                             get_filename_from_url(last.url, Response(last.url, last.env)))

\* the suffix N of the name the probing loop of f has reached, 0 for the derived name
SuffixReached(f) == f.counter - 1

\* the entries of the directory
Entries == DOMAIN fs.files

\* the probing loop of f is running or has just ended
Probing(f) == f.pc \in {"probe", "write"}

\* C17 as stated (implicit: the probing loop terminates): in a directory containing k
\* files the loop stops at a suffix N <= k.
ProbeBoundAsStated ==
    \A t \in Fetchers :
        Probing(fetches[t]) => SuffixReached(fetches[t]) <= Cardinality(Entries)

\* C17 amended (implicit: the probing loop terminates): in a directory with k entries
\* the loop stops at a suffix N <= k + 1, and N <= k when the derived name is itself an
\* entry (the names "." and ".." exist in every directory without being entries); the
\* name it stops at is free; and every fetch that reaches the placement stage ends,
\* having written its file or returned False from the handler.
ProbeTerminates ==
    /\ [](\A t \in Fetchers :
            LET f == fetches[t]
            IN  /\ Probing(f) =>
                      /\ SuffixReached(f) <= Cardinality(Entries) + 1
                      /\ (f.base_name \o f.extension) \in Entries =>
                            SuffixReached(f) <= Cardinality(Entries)
                      /\ \A m \in 1..(SuffixReached(f) - 1) :
                            Suffixed(f.base_name, m, f.extension) \in Entries
                /\ f.pc = "write" => ~PathExists(fs, f.filename)
                /\ (f.pc = "done" /\ f.trace = StageOrder) =>
                      \/ f.tag = "accepted" /\ f.wrote \in Entries
                      \/ f.tag = "Error" /\ ~f.ret)
    /\ \A t \in Fetchers : (fetches[t].pc = "placement") ~> (fetches[t].pc = "done")

\* C17 witness: the loop passed a.png and a_1.png and the call wrote a_2.png
ProbeWitness ==
    /\ fetches[1].pc = "done"
    /\ fetches[1].tag = "accepted"
    /\ fetches[1].counter = 3
    /\ fetches[1].wrote = <<"a", "_", "2", ".", "p", "n", "g">>
    /\ Cardinality(Entries) = 3

=============================================================================
